---- MODULE Spec2Model ----
(***************************************************************************)
(* The meal catalog store of meal_max/models/kitchen_model.py: one table   *)
(* `meals` and the seven module-level functions that read and write it.    *)
(* Each function is an operator from (table, arguments) to (table, result),*)
(* and each action applies one of them to arguments drawn from small sets. *)
(* `call` and `result` are the last call that ended and what it gave.      *)
(* `tally` is a history variable: for each row, the win and loss updates   *)
(* that succeeded on it.  `pending` holds, for each concurrent caller, the *)
(* delete_meal or update_meal_stats call that has read the row and not yet *)
(* written; it is used by SpecConc only.                                   *)
(***************************************************************************)
EXTENDS Integers, Sequences, FiniteSets, TLC

VARIABLES meals, call, result, tally, pending

vars == <<meals, call, result, tally, pending>>

(***************************************************************************)
(* Bounds and input sets.                                                  *)
(***************************************************************************)
\* Cap on the number of battles recorded over the whole table.
MaxBattles == 4

\* Cap on the number of battles recorded over the whole table when callers
\* run at the same time.
MaxConcBattles == MaxBattles \div 2

Names == {"Pasta", "Pizza"}
Cuisines == {"Italian"}
DifficultyArgs == {"MED", "EASY"}
SortArgs == {"wins", "win_pct", "price"}
ResultArgs == {"win", "loss", "draw"}

\* Python's None where an int is expected (an id argument, a return value).
PyNone == 0 - 1

\* The ids the table can hold and one it cannot; get_meal_by_id is also given
\* None, which is what create_meal returns.
IdArgs == 1 .. (Cardinality(Names) + 1)
GetIdArgs == IdArgs \cup {PyNone}

(***************************************************************************)
(* Python values of the price argument: an int or float with its value, the*)
(* float nan, a value that is no number (a str), and what SQLite stores for*)
(* a nan bound to a REAL column (NULL).                                    *)
(***************************************************************************)
Num(n) == [kind |-> "num", val |-> n]
NaN == [kind |-> "nan", val |-> 0]
Str == [kind |-> "str", val |-> 0]
Null == [kind |-> "null", val |-> 0]

PriceArgs == {Num(0), Num(12), NaN, Str}

\* The fields of a Meal object, here of one that stands for "no Meal".
NoMeal == [id |-> 0, meal |-> "", cuisine |-> "", price |-> Null, difficulty |-> ""]

\* isinstance(price, (int, float))
IsNumber(price) == price.kind \in {"num", "nan"}

\* price <= 0 : every comparison with nan is False
LeqZero(price) == price.kind = "num" /\ price.val <= 0

\* price < 0 in Meal.__post_init__ : None < 0 raises TypeError
LtZero(price) == price.kind = "num" /\ price.val < 0

\* sqlite3 binds a float nan as NULL
SqlBind(price) == IF price.kind = "nan" THEN Null ELSE price

DIFFICULTIES == {"LOW", "MED", "HIGH"}

\* A call: the function, its arguments (those it does not take left at these
\* values) and whether the database fails during it.
NoCall ==
    [id |-> PyNone, meal |-> "", cuisine |-> "", price |-> Null,
     difficulty |-> "", op |-> "init", arg |-> "", dbfail |-> FALSE]

(***************************************************************************)
(* Results of a call: the value returned or the exception raised, and      *)
(* whether the call opened a database connection.                          *)
(***************************************************************************)
Raise(e, m, c) ==
    [meal |-> NoMeal, exc |-> e, msg |-> m, ret |-> "raise", value |-> PyNone,
     board |-> << >>, conn |-> c]

ReturnNone ==
    [meal |-> NoMeal, exc |-> "none", msg |-> "", ret |-> "None", value |-> PyNone,
     board |-> << >>, conn |-> TRUE]

ReturnMeal(m) ==
    [meal |-> m, exc |-> "none", msg |-> "", ret |-> "Meal", value |-> PyNone,
     board |-> << >>, conn |-> TRUE]

ReturnList(b) ==
    [meal |-> NoMeal, exc |-> "none", msg |-> "", ret |-> "list", value |-> PyNone,
     board |-> b, conn |-> TRUE]

\* except sqlite3.Error as e: logger.error(...); raise e
DatabaseError == Raise("sqlite3.Error", "", TRUE)

Out(db, res) == [db |-> db, res |-> res]

(***************************************************************************)
(* The table.  The schema script is not among the sources; what it does is *)
(* taken from the schema table of the specification: id auto-assigned,     *)
(* meal unique, price > 0, battles and wins default 0, deleted default     *)
(* false.                                                                  *)
(***************************************************************************)
Rows(db) == {db[i] : i \in 1 .. Len(db)}

NextId(db) == Len(db) + 1

NewRow(db, meal, cuisine, price, difficulty) ==
    [id |-> NextId(db), meal |-> meal, cuisine |-> cuisine, price |-> price,
     difficulty |-> difficulty, battles |-> 0, wins |-> 0, deleted |-> FALSE]

\* The constraints of the table that an INSERT can violate.
IntegrityViolation(db, meal, price, difficulty) ==
    \/ \E r \in Rows(db) : r.meal = meal
    \/ ~(price.kind = "num" /\ price.val > 0)
    \/ difficulty \notin DIFFICULTIES

\* SELECT ... FROM meals WHERE id = ? ; id = NULL matches no row
SelectById(db, meal_id) ==
    IF meal_id = PyNone THEN {} ELSE {r \in Rows(db) : r.id = meal_id}

\* SELECT ... FROM meals WHERE meal = ?
SelectByName(db, meal_name) == {r \in Rows(db) : r.meal = meal_name}

\* Variant: the statement without its WHERE clause.
UpdateDeleted_EveryRow(db, meal_id) ==
    [i \in 1 .. Len(db) |-> [db[i] EXCEPT !.deleted = TRUE]]

\* UPDATE meals SET deleted = TRUE WHERE id = ?
UpdateDeleted(db, meal_id) ==
    [i \in 1 .. Len(db) |->
        IF db[i].id = meal_id THEN [db[i] EXCEPT !.deleted = TRUE] ELSE db[i]]

\* UPDATE meals SET battles = battles + 1, wins = wins + 1 WHERE id = ?
UpdateWin(db, meal_id) ==
    [i \in 1 .. Len(db) |->
        IF db[i].id = meal_id
        THEN [db[i] EXCEPT !.battles = @ + 1, !.wins = @ + 1]
        ELSE db[i]]

\* Variant: the statement for a loss counts a win and no battle.
UpdateLoss_WinsOnly(db, meal_id) ==
    [i \in 1 .. Len(db) |->
        IF db[i].id = meal_id THEN [db[i] EXCEPT !.wins = @ + 1] ELSE db[i]]

\* UPDATE meals SET battles = battles + 1 WHERE id = ?
UpdateLoss(db, meal_id) ==
    [i \in 1 .. Len(db) |->
        IF db[i].id = meal_id THEN [db[i] EXCEPT !.battles = @ + 1] ELSE db[i]]

(***************************************************************************)
(* class Meal and its __post_init__.                                       *)
(***************************************************************************)
MealOf(row) ==
    [id |-> row.id, meal |-> row.meal, cuisine |-> row.cuisine,
     price |-> row.price, difficulty |-> row.difficulty]

Meal(row) ==
    IF ~IsNumber(row.price) THEN Raise("TypeError", "", TRUE)
    ELSE IF LtZero(row.price)
    THEN Raise("ValueError", "Price must be a positive value.", TRUE)
    ELSE IF row.difficulty \notin DIFFICULTIES
    THEN Raise("ValueError", "Difficulty must be 'LOW', 'MED', or 'HIGH'.", TRUE)
    ELSE ReturnMeal(MealOf(row))

(***************************************************************************)
(* create_meal                                                             *)
(***************************************************************************)
\* Variant: the difficulty is bound to the cuisine column and the cuisine to
\* the difficulty column.
create_meal_ColumnsSwapped(db, meal, cuisine, price, difficulty, dbfail) ==
    IF ~IsNumber(price) \/ LeqZero(price)
    THEN Out(db, Raise("ValueError", "Invalid price", FALSE))
    ELSE IF difficulty \notin DIFFICULTIES
    THEN Out(db, Raise("ValueError", "Invalid difficulty level", FALSE))
    ELSE IF dbfail
    THEN Out(db, DatabaseError)
    ELSE IF IntegrityViolation(db, meal, SqlBind(price), difficulty)
    THEN Out(db, Raise("ValueError", "already exists", TRUE))
    ELSE Out(Append(db, NewRow(db, meal, difficulty, SqlBind(price), cuisine)),
             ReturnNone)

\* Variant: the IntegrityError is caught and dropped.
create_meal_IntegrityErrorDropped(db, meal, cuisine, price, difficulty, dbfail) ==
    IF ~IsNumber(price) \/ LeqZero(price)
    THEN Out(db, Raise("ValueError", "Invalid price", FALSE))
    ELSE IF difficulty \notin DIFFICULTIES
    THEN Out(db, Raise("ValueError", "Invalid difficulty level", FALSE))
    ELSE IF dbfail
    THEN Out(db, DatabaseError)
    ELSE IF IntegrityViolation(db, meal, SqlBind(price), difficulty)
    THEN Out(db, ReturnNone)
    ELSE Out(Append(db, NewRow(db, meal, cuisine, SqlBind(price), difficulty)),
             ReturnNone)

create_meal(db, meal, cuisine, price, difficulty, dbfail) ==
    IF ~IsNumber(price) \/ LeqZero(price)
    THEN Out(db, Raise("ValueError", "Invalid price", FALSE))
    ELSE IF difficulty \notin DIFFICULTIES
    THEN Out(db, Raise("ValueError", "Invalid difficulty level", FALSE))
    ELSE IF dbfail
    THEN Out(db, DatabaseError)
    ELSE IF IntegrityViolation(db, meal, SqlBind(price), difficulty)
    THEN Out(db, Raise("ValueError", "already exists", TRUE))
    ELSE Out(Append(db, NewRow(db, meal, cuisine, SqlBind(price), difficulty)),
             ReturnNone)

CreateMeal ==
    \E meal \in Names, cuisine \in Cuisines, price \in PriceArgs,
       difficulty \in DifficultyArgs, dbfail \in BOOLEAN :
        LET out == create_meal(meals, meal, cuisine, price, difficulty, dbfail)
        IN  /\ meals' = out.db
            /\ result' = out.res
            /\ call' = [NoCall EXCEPT !.op = "create_meal", !.meal = meal,
                                      !.cuisine = cuisine, !.price = price,
                                      !.difficulty = difficulty,
                                      !.dbfail = dbfail]

(***************************************************************************)
(* clear_meals                                                             *)
(***************************************************************************)
clear_meals(db, dbfail) ==
    IF dbfail THEN Out(db, DatabaseError) ELSE Out(<< >>, ReturnNone)

ClearMeals ==
    \E dbfail \in BOOLEAN :
        LET out == clear_meals(meals, dbfail)
        IN  /\ meals' = out.db
            /\ result' = out.res
            /\ call' = [NoCall EXCEPT !.op = "clear_meals", !.dbfail = dbfail]

(***************************************************************************)
(* delete_meal                                                             *)
(***************************************************************************)
\* Variant: a missing row is not reported; the UPDATE then matches no row.
delete_meal_MissingRowIgnored(db, meal_id, dbfail) ==
    IF dbfail THEN Out(db, DatabaseError)
    ELSE IF \E r \in SelectById(db, meal_id) : r.deleted
    THEN Out(db, Raise("ValueError", "has been deleted", TRUE))
    ELSE Out(UpdateDeleted(db, meal_id), ReturnNone)

\* Variant: deleting a deleted record brings it back.
delete_meal_Toggles(db, meal_id, dbfail) ==
    IF dbfail THEN Out(db, DatabaseError)
    ELSE IF SelectById(db, meal_id) = {}
    THEN Out(db, Raise("ValueError", "not found", TRUE))
    ELSE IF \E r \in SelectById(db, meal_id) : r.deleted
    THEN Out([i \in 1 .. Len(db) |->
                 IF db[i].id = meal_id THEN [db[i] EXCEPT !.deleted = FALSE]
                 ELSE db[i]],
             ReturnNone)
    ELSE Out(UpdateDeleted(db, meal_id), ReturnNone)

delete_meal(db, meal_id, dbfail) ==
    IF dbfail THEN Out(db, DatabaseError)
    ELSE IF SelectById(db, meal_id) = {}
    THEN Out(db, Raise("ValueError", "not found", TRUE))
    ELSE IF \E r \in SelectById(db, meal_id) : r.deleted
    THEN Out(db, Raise("ValueError", "has been deleted", TRUE))
    ELSE Out(UpdateDeleted(db, meal_id), ReturnNone)

DeleteMeal ==
    \E meal_id \in IdArgs, dbfail \in BOOLEAN :
        LET out == delete_meal(meals, meal_id, dbfail)
        IN  /\ meals' = out.db
            /\ result' = out.res
            /\ call' = [NoCall EXCEPT !.op = "delete_meal", !.id = meal_id,
                                      !.dbfail = dbfail]

(***************************************************************************)
(* get_meal_by_id, get_meal_by_name                                        *)
(***************************************************************************)
\* Variant: the deleted column is not looked at.
get_meal_by_id_DeletedIgnored(db, meal_id, dbfail) ==
    IF dbfail THEN Out(db, DatabaseError)
    ELSE IF SelectById(db, meal_id) = {}
    THEN Out(db, Raise("ValueError", "not found", TRUE))
    ELSE Out(db, Meal(CHOOSE r \in SelectById(db, meal_id) : TRUE))

\* Variant: a deleted row is reported like a missing one.
get_meal_by_id_DeletedAsMissing(db, meal_id, dbfail) ==
    IF dbfail THEN Out(db, DatabaseError)
    ELSE IF SelectById(db, meal_id) = {}
    THEN Out(db, Raise("ValueError", "not found", TRUE))
    ELSE LET row == CHOOSE r \in SelectById(db, meal_id) : TRUE
         IN  IF row.deleted
             THEN Out(db, Raise("ValueError", "not found", TRUE))
             ELSE Out(db, Meal(row))

get_meal_by_id(db, meal_id, dbfail) ==
    IF dbfail THEN Out(db, DatabaseError)
    ELSE IF SelectById(db, meal_id) = {}
    THEN Out(db, Raise("ValueError", "not found", TRUE))
    ELSE LET row == CHOOSE r \in SelectById(db, meal_id) : TRUE
         IN  IF row.deleted
             THEN Out(db, Raise("ValueError", "has been deleted", TRUE))
             ELSE Out(db, Meal(row))

GetMealById ==
    \E meal_id \in GetIdArgs, dbfail \in BOOLEAN :
        LET out == get_meal_by_id(meals, meal_id, dbfail)
        IN  /\ meals' = out.db
            /\ result' = out.res
            /\ call' = [NoCall EXCEPT !.op = "get_meal_by_id", !.id = meal_id,
                                      !.dbfail = dbfail]

\* Variant: the deleted flag of the row found is not looked at.
get_meal_by_name_DeletedIgnored(db, meal_name, dbfail) ==
    IF dbfail THEN Out(db, DatabaseError)
    ELSE IF SelectByName(db, meal_name) = {}
    THEN Out(db, Raise("ValueError", "not found", TRUE))
    ELSE Out(db, Meal(CHOOSE r \in SelectByName(db, meal_name) : TRUE))

get_meal_by_name(db, meal_name, dbfail) ==
    IF dbfail THEN Out(db, DatabaseError)
    ELSE IF SelectByName(db, meal_name) = {}
    THEN Out(db, Raise("ValueError", "not found", TRUE))
    ELSE LET row == CHOOSE r \in SelectByName(db, meal_name) : TRUE
         IN  IF row.deleted
             THEN Out(db, Raise("ValueError", "has been deleted", TRUE))
             ELSE Out(db, Meal(row))

GetMealByName ==
    \E meal_name \in Names \cup {"Ramen"}, dbfail \in BOOLEAN :
        LET out == get_meal_by_name(meals, meal_name, dbfail)
        IN  /\ meals' = out.db
            /\ result' = out.res
            /\ call' = [NoCall EXCEPT !.op = "get_meal_by_name", !.meal = meal_name,
                                      !.dbfail = dbfail]

(***************************************************************************)
(* update_meal_stats                                                       *)
(***************************************************************************)
\* Variant: a loss runs the UPDATE of a win.
update_meal_stats_LossAsWin(db, meal_id, res, dbfail) ==
    IF dbfail THEN Out(db, DatabaseError)
    ELSE IF SelectById(db, meal_id) = {}
    THEN Out(db, Raise("ValueError", "not found", TRUE))
    ELSE IF \E r \in SelectById(db, meal_id) : r.deleted
    THEN Out(db, Raise("ValueError", "has been deleted", TRUE))
    ELSE IF res = "win" THEN Out(UpdateWin(db, meal_id), ReturnNone)
    ELSE IF res = "loss" THEN Out(UpdateWin(db, meal_id), ReturnNone)
    ELSE Out(db, Raise("ValueError", "Invalid result", TRUE))

\* Variant: the deleted flag read is not tested.
update_meal_stats_DeletedIgnored(db, meal_id, res, dbfail) ==
    IF dbfail THEN Out(db, DatabaseError)
    ELSE IF SelectById(db, meal_id) = {}
    THEN Out(db, Raise("ValueError", "not found", TRUE))
    ELSE IF res = "win" THEN Out(UpdateWin(db, meal_id), ReturnNone)
    ELSE IF res = "loss" THEN Out(UpdateLoss(db, meal_id), ReturnNone)
    ELSE Out(db, Raise("ValueError", "Invalid result", TRUE))

\* Variant: every result that is not a win is counted as a loss.
update_meal_stats_ElseIsLoss(db, meal_id, res, dbfail) ==
    IF dbfail THEN Out(db, DatabaseError)
    ELSE IF SelectById(db, meal_id) = {}
    THEN Out(db, Raise("ValueError", "not found", TRUE))
    ELSE IF \E r \in SelectById(db, meal_id) : r.deleted
    THEN Out(db, Raise("ValueError", "has been deleted", TRUE))
    ELSE IF res = "win" THEN Out(UpdateWin(db, meal_id), ReturnNone)
    ELSE Out(UpdateLoss(db, meal_id), ReturnNone)

update_meal_stats(db, meal_id, res, dbfail) ==
    IF dbfail THEN Out(db, DatabaseError)
    ELSE IF SelectById(db, meal_id) = {}
    THEN Out(db, Raise("ValueError", "not found", TRUE))
    ELSE IF \E r \in SelectById(db, meal_id) : r.deleted
    THEN Out(db, Raise("ValueError", "has been deleted", TRUE))
    ELSE IF res = "win" THEN Out(UpdateWin(db, meal_id), ReturnNone)
    ELSE IF res = "loss" THEN Out(UpdateLoss(db, meal_id), ReturnNone)
    ELSE Out(db, Raise("ValueError", "Invalid result", TRUE))

RECURSIVE TotalBattles(_)
TotalBattles(db) ==
    IF Len(db) = 0 THEN 0 ELSE Head(db).battles + TotalBattles(Tail(db))

UpdateMealStats ==
    \E meal_id \in IdArgs, res \in ResultArgs, dbfail \in BOOLEAN :
        LET out == update_meal_stats(meals, meal_id, res, dbfail)
        IN  /\ TotalBattles(out.db) <= MaxBattles
            /\ meals' = out.db
            /\ result' = out.res
            /\ call' = [NoCall EXCEPT !.op = "update_meal_stats", !.id = meal_id,
                                      !.arg = res, !.dbfail = dbfail]

(***************************************************************************)
(* get_leaderboard                                                         *)
(***************************************************************************)
\* Variant: the query without "deleted = false".
LeaderboardQuery_DeletedKept(db) == {r \in Rows(db) : r.battles > 0}

\* SELECT ... FROM meals WHERE deleted = false AND battles > 0
LeaderboardQuery(db) == {r \in Rows(db) : ~r.deleted /\ r.battles > 0}

\* The orders in which a result set can be delivered.
Orderings(S) ==
    {s \in [1 .. Cardinality(S) -> S] : \A i, j \in DOMAIN s : i # j => s[i] # s[j]}

\* ORDER BY wins DESC ; rows with equal wins come in any order
OrderByWins(S) ==
    {s \in Orderings(S) : \A i, j \in DOMAIN s : i < j => s[i].wins >= s[j].wins}

\* Variant: ORDER BY win_pct without DESC.
OrderByWinPct_Ascending(S) ==
    {s \in Orderings(S) :
        \A i, j \in DOMAIN s :
            i < j => s[i].wins * s[j].battles <= s[j].wins * s[i].battles}

\* ORDER BY win_pct DESC, win_pct being wins * 1.0 / battles with battles > 0
OrderByWinPct(S) ==
    {s \in Orderings(S) :
        \A i, j \in DOMAIN s :
            i < j => s[i].wins * s[j].battles >= s[j].wins * s[i].battles}

\* Variant: the percentage is cut off after the first decimal, not rounded.
WinPct_Truncated(wins, battles) == (1000 * wins) \div battles

\* round(wins * 1.0 / battles * 100, 1), in tenths of a percent; Python's
\* round takes a value half way between two tenths to the even one
WinPct(wins, battles) ==
    LET q == (1000 * wins) \div battles
        r == (1000 * wins) % battles
    IN  IF 2 * r < battles THEN q
        ELSE IF 2 * r > battles THEN q + 1
        ELSE IF q % 2 = 0 THEN q ELSE q + 1

LeaderboardEntry(row) ==
    [id |-> row.id, meal |-> row.meal, cuisine |-> row.cuisine,
     price |-> row.price, difficulty |-> row.difficulty,
     battles |-> row.battles, wins |-> row.wins,
     win_pct |-> WinPct(row.wins, row.battles)]

Leaderboard(rows) == [i \in 1 .. Len(rows) |-> LeaderboardEntry(rows[i])]

\* The results the call can have: one per admissible order of the rows.
get_leaderboard(db, sort_by, dbfail) ==
    IF sort_by = "win_pct"
    THEN IF dbfail THEN {DatabaseError}
         ELSE {ReturnList(Leaderboard(rows)) : rows \in OrderByWinPct(LeaderboardQuery(db))}
    ELSE IF sort_by = "wins"
    THEN IF dbfail THEN {DatabaseError}
         ELSE {ReturnList(Leaderboard(rows)) : rows \in OrderByWins(LeaderboardQuery(db))}
    ELSE {Raise("ValueError", "Invalid sort_by parameter", FALSE)}

GetLeaderboard ==
    \E sort_by \in SortArgs, dbfail \in BOOLEAN :
        \E res \in get_leaderboard(meals, sort_by, dbfail) :
            /\ meals' = meals
            /\ result' = res
            /\ call' = [NoCall EXCEPT !.op = "get_leaderboard", !.arg = sort_by,
                                      !.dbfail = dbfail]

(***************************************************************************)
(* History: the updates that succeeded on each row since it was inserted.  *)
(***************************************************************************)
TallyAfter(t, c, r) ==
    IF r.exc # "none" THEN t
    ELSE IF c.op = "clear_meals" THEN << >>
    ELSE IF c.op = "create_meal" THEN Append(t, [win |-> 0, loss |-> 0])
    ELSE IF c.op = "update_meal_stats" /\ c.id \in DOMAIN t
    THEN IF c.arg = "win" THEN [t EXCEPT ![c.id].win = @ + 1]
         ELSE IF c.arg = "loss" THEN [t EXCEPT ![c.id].loss = @ + 1]
         ELSE t
    ELSE t

\* The callers that can have a call in progress at the same time.
Procs == {1, 2}

\* A step of the one-caller-at-a-time specification: the call runs from its
\* first statement to its last with no other call in between.
Sequential ==
    /\ tally' = TallyAfter(tally, call', result')
    /\ UNCHANGED pending

Init ==
    /\ meals = << >>
    /\ call = NoCall
    /\ result = ReturnNone
    /\ tally = << >>
    /\ pending = [p \in Procs |-> NoCall]

Next ==
    \/ CreateMeal /\ Sequential
    \/ ClearMeals /\ Sequential
    \/ DeleteMeal /\ Sequential
    \/ GetLeaderboard /\ Sequential
    \/ GetMealById /\ Sequential
    \/ GetMealByName /\ Sequential
    \/ UpdateMealStats /\ Sequential

Spec == Init /\ [][Next]_vars

(***************************************************************************)
(* Callers running at the same time.  delete_meal and update_meal_stats    *)
(* execute a SELECT, look at the row fetched, and then execute an UPDATE   *)
(* and commit; each caller has a connection of its own, and the statements *)
(* of two callers may interleave between the SELECT and the UPDATE.        *)
(* pending[p] is the call of caller p whose SELECT found a row that is not *)
(* deleted and whose UPDATE is still to come.                              *)
(***************************************************************************)
\* The callers that hold a connection between their SELECT and their UPDATE.
ConnectionsOpen == {p \in Procs : pending[p] # NoCall}

\* with get_db_connection() ... SELECT deleted FROM meals WHERE id = ? and
\* the checks on the row fetched
Begin(p) ==
    /\ p \notin ConnectionsOpen
    /\ \E op \in {"delete_meal", "update_meal_stats"}, meal_id \in IdArgs,
          res \in ResultArgs, dbfail \in BOOLEAN :
          LET c == [NoCall EXCEPT !.id = meal_id, !.op = op,
                                  !.arg = IF op = "delete_meal" THEN "" ELSE res,
                                  !.dbfail = dbfail]
          IN  /\ op = "delete_meal" => res = "win"
              /\ IF dbfail
                 THEN /\ call' = c
                      /\ result' = DatabaseError
                      /\ UNCHANGED pending
                 ELSE IF SelectById(meals, meal_id) = {}
                 THEN /\ call' = c
                      /\ result' = Raise("ValueError", "not found", TRUE)
                      /\ UNCHANGED pending
                 ELSE IF \E r \in SelectById(meals, meal_id) : r.deleted
                 THEN /\ call' = c
                      /\ result' = Raise("ValueError", "has been deleted", TRUE)
                      /\ UNCHANGED pending
                 ELSE /\ pending' = [pending EXCEPT ![p] = c]
                      /\ UNCHANGED <<call, result>>
    /\ UNCHANGED <<meals, tally>>

\* the UPDATE of the call, conn.commit() and the return
Finish(p) ==
    /\ p \in ConnectionsOpen
    /\ \E dbfail \in BOOLEAN :
          LET c   == pending[p]
              out == IF dbfail THEN Out(meals, DatabaseError)
                     ELSE IF c.op = "delete_meal"
                     THEN Out(UpdateDeleted(meals, c.id), ReturnNone)
                     ELSE IF c.arg = "win"
                     THEN Out(UpdateWin(meals, c.id), ReturnNone)
                     ELSE IF c.arg = "loss"
                     THEN Out(UpdateLoss(meals, c.id), ReturnNone)
                     ELSE Out(meals, Raise("ValueError", "Invalid result", TRUE))
          IN  /\ TotalBattles(out.db) <= MaxConcBattles
              /\ meals' = out.db
              /\ result' = out.res
              /\ call' = [c EXCEPT !.dbfail = dbfail]
              /\ tally' = TallyAfter(tally, call', result')
    /\ pending' = [pending EXCEPT ![p] = NoCall]

\* Records come from create_meal calls that succeed; the calls running at
\* the same time are delete_meal and update_meal_stats.
NextConc ==
    \/ CreateMeal /\ Sequential /\ result'.exc = "none"
    \/ \E p \in Procs : Begin(p)
    \/ \E p \in Procs : Finish(p)

SpecConc == Init /\ [][NextConc]_vars

(***************************************************************************)
(* What a caller can tell of a result: the exception type and its message. *)
(* Every domain error of the module is a ValueError; the message is all    *)
(* that separates one kind from another.                                   *)
(***************************************************************************)
ValidationError(res) ==
    /\ res.exc = "ValueError"
    /\ res.msg \in {"Invalid price", "Invalid difficulty level",
                    "Invalid sort_by parameter", "Invalid result"}

NotFoundError(res) == res.exc = "ValueError" /\ res.msg = "not found"

HasBeenDeletedError(res) == res.exc = "ValueError" /\ res.msg = "has been deleted"

DuplicateNameError(res) == res.exc = "ValueError" /\ res.msg = "already exists"

StorageError(res) == res.exc = "sqlite3.Error"

\* price is a number strictly greater than 0
PositiveNumber(price) == price.kind = "num" /\ price.val > 0

\* The Meal a lookup returns for the arguments of a create_meal call.
MealCreated(id, c) ==
    [id |-> id, meal |-> c.meal, cuisine |-> c.cuisine, price |-> c.price,
     difficulty |-> c.difficulty]

(***************************************************************************)
(* C1.  As claimed: every successful create_meal returns the identifier of *)
(* the new record, and get_meal_by_id of the returned value succeeds with  *)
(* the meal, cuisine, price and difficulty passed to create_meal.          *)
(***************************************************************************)
C1_GetByReturnedId ==
    (call.op = "create_meal" /\ result.exc = "none")
        => get_meal_by_id(meals, result.value, FALSE).res
               = ReturnMeal(MealCreated(result.value, call))

(***************************************************************************)
(* C1, amended.  For every valid input (price a positive number, difficulty*)
(* in LOW, MED, HIGH, name not yet in the table) create_meal, unless the   *)
(* database fails, adds exactly one record and returns None;               *)
(* get_meal_by_id of the identifier the store gave the new record then     *)
(* succeeds with the meal, cuisine, price and difficulty passed.           *)
(***************************************************************************)
C1_CreateThenGetById ==
    [][(/\ call'.op = "create_meal"
        /\ PositiveNumber(call'.price)
        /\ call'.difficulty \in DIFFICULTIES
        /\ SelectByName(meals, call'.meal) = {}
        /\ ~call'.dbfail)
       => /\ result' = ReturnNone
          /\ Len(meals') = Len(meals) + 1
          /\ \E r \in Rows(meals') \ Rows(meals) :
                get_meal_by_id(meals', r.id, FALSE).res
                    = ReturnMeal(MealCreated(r.id, call'))]_vars

C1_Witness ==
    /\ call.op = "create_meal"
    /\ result = ReturnNone
    /\ Len(meals) = 2
    /\ get_meal_by_id(meals, 2, FALSE).res = ReturnMeal(MealCreated(2, call))

(***************************************************************************)
(* C2.  create_meal fails with a validation error and inserts no record    *)
(* whenever price is not a number strictly greater than 0 or difficulty is *)
(* not one of LOW, MED, HIGH; the table is then unchanged.  (Stated for    *)
(* calls during which the database does not fail.)                         *)
(***************************************************************************)
C2_InvalidCreateRejected ==
    [][(/\ call'.op = "create_meal"
        /\ ~call'.dbfail
        /\ (~PositiveNumber(call'.price) \/ call'.difficulty \notin DIFFICULTIES))
       => (ValidationError(result') /\ meals' = meals)]_vars

(***************************************************************************)
(* C3.  As claimed: whenever create_meal is called with a name a record of *)
(* the table already has, it fails with the duplicate-name error.          *)
(***************************************************************************)
C3_ExistingNameAlwaysDuplicate ==
    [][(/\ call'.op = "create_meal"
        /\ SelectByName(meals, call'.meal) # {}
        /\ ~call'.dbfail)
       => DuplicateNameError(result')]_vars

\* No two records of the table have the same name.
NamesUnique(db) ==
    \A i, j \in 1 .. Len(db) : db[i].meal = db[j].meal => i = j

(***************************************************************************)
(* C3, amended.  When create_meal is called with a name a record of the    *)
(* table already has, it adds no record and changes none; it fails with the*)
(* duplicate-name error when price and difficulty pass validation (and the *)
(* database does not fail), and with the validation error otherwise.  In   *)
(* every reachable state no two records, deleted or not, share a name.     *)
(***************************************************************************)
C3_DuplicateNameRejected ==
    [][/\ (/\ call'.op = "create_meal"
           /\ SelectByName(meals, call'.meal) # {})
          => /\ meals' = meals
             /\ result'.ret = "raise"
             /\ ~call'.dbfail
                  => IF IsNumber(call'.price) /\ ~LeqZero(call'.price)
                        /\ call'.difficulty \in DIFFICULTIES
                     THEN DuplicateNameError(result')
                     ELSE ValidationError(result')
       /\ NamesUnique(meals')]_vars

C3_Witness ==
    /\ call.op = "create_meal"
    /\ DuplicateNameError(result)
    /\ PositiveNumber(call.price)
    /\ \E r \in Rows(meals) : r.meal = call.meal /\ r.deleted

C5_DeleteUnknownId ==
    [][(call'.op = "delete_meal" /\ ~call'.dbfail)
       => /\ SelectById(meals, call'.id) = {}
             => (NotFoundError(result') /\ meals' = meals)
          /\ (\E r \in SelectById(meals, call'.id) : ~r.deleted)
             => /\ result' = ReturnNone
                /\ SelectById(meals', call'.id) # {}
                /\ \A r \in SelectById(meals', call'.id) : r.deleted]_vars

C5_Witness ==
    /\ call.op = "delete_meal"
    /\ NotFoundError(result)
    /\ Len(meals) > 0

C7_UpdateMissingOrDeletedNotFound ==
    [][(/\ call'.op = "update_meal_stats"
        /\ ~call'.dbfail
        /\ \A r \in SelectById(meals, call'.id) : r.deleted)
       => (NotFoundError(result') /\ meals' = meals)]_vars

(***************************************************************************)
(* C7, amended.  update_meal_stats fails with the "not found" error when no*)
(* record has the id and with the "has been deleted" error when the record *)
(* is deleted, whatever the result argument; in both cases it issues no    *)
(* update: every record is unchanged.                                      *)
(***************************************************************************)
C7_UpdateMissingOrDeletedFails ==
    [][(call'.op = "update_meal_stats" /\ ~call'.dbfail)
       => /\ SelectById(meals, call'.id) = {}
             => (NotFoundError(result') /\ meals' = meals)
          /\ (\E r \in SelectById(meals, call'.id) : r.deleted)
             => (HasBeenDeletedError(result') /\ meals' = meals)]_vars

C7_Witness ==
    /\ call.op = "update_meal_stats"
    /\ call.arg = "win"
    /\ HasBeenDeletedError(result)
    /\ \E r \in SelectById(meals, call.id) : r.deleted /\ r.battles > 0

(***************************************************************************)
(* C8.  As claimed: every update_meal_stats call whose result argument is  *)
(* neither "win" nor "loss" fails with the validation error, whatever the  *)
(* id, and changes no record.                                              *)
(***************************************************************************)
C8_InvalidResultAlwaysValidation ==
    [][(/\ call'.op = "update_meal_stats"
        /\ ~call'.dbfail
        /\ call'.arg \notin {"win", "loss"})
       => (ValidationError(result') /\ meals' = meals)]_vars

(***************************************************************************)
(* C8, amended.  Every update_meal_stats call whose result argument is     *)
(* neither "win" nor "loss" fails and changes no record; the error is the  *)
(* validation error when the id is that of a record that is not deleted,   *)
(* and otherwise the error of the id ("not found", "has been deleted"),    *)
(* because the row is looked up before the result argument is.             *)
(***************************************************************************)
C8_InvalidResultRejected ==
    [][(/\ call'.op = "update_meal_stats"
        /\ ~call'.dbfail
        /\ call'.arg \notin {"win", "loss"})
       => /\ meals' = meals
          /\ result'.ret = "raise"
          /\ IF \E r \in SelectById(meals, call'.id) : ~r.deleted
             THEN ValidationError(result')
             ELSE IF SelectById(meals, call'.id) = {}
             THEN NotFoundError(result')
             ELSE HasBeenDeletedError(result')]_vars

C8_Witness ==
    /\ call.op = "update_meal_stats"
    /\ call.arg = "draw"
    /\ ValidationError(result)
    /\ \E r \in SelectById(meals, call.id) : ~r.deleted /\ r.battles > 0

\* The ids of the entries of a leaderboard.
BoardIds(board) == {board[i].id : i \in 1 .. Len(board)}

C10_LeaderboardOrder ==
    call.op = "get_leaderboard"
        => /\ (call.arg = "wins" /\ result.ret = "list")
              => \A i, j \in 1 .. Len(result.board) :
                    i < j => result.board[i].wins >= result.board[j].wins
           /\ (call.arg = "win_pct" /\ result.ret = "list")
              => \A i, j \in 1 .. Len(result.board) :
                    i < j => result.board[i].wins * result.board[j].battles
                                >= result.board[j].wins * result.board[i].battles
           /\ call.arg \notin {"wins", "win_pct"}
              => (ValidationError(result) /\ ~result.conn)

C10_Witness ==
    /\ call.op = "get_leaderboard"
    /\ call.arg = "win_pct"
    /\ Len(result.board) = 2
    /\ result.board[1].wins < result.board[2].wins

NeverCreated(db, meal_id) == SelectSeq(db, LAMBDA r : r.id # meal_id)

C14_StorageErrorsSurfaced ==
    [][/\ (call'.dbfail /\ result'.conn)
          => (StorageError(result') /\ meals' = meals)
       /\ DuplicateNameError(result')
          => /\ call'.op = "create_meal"
             /\ SelectByName(meals, call'.meal) # {}]_vars

(***************************************************************************)
(* C15.  Under every interleaving of the SELECT and the UPDATE of          *)
(* delete_meal and update_meal_stats calls running at the same time, the   *)
(* battles and wins of a record whose deleted flag is set do not change,   *)
(* and a delete_meal call completes successfully only on a record that is  *)
(* not deleted at the time of its UPDATE (of two delete_meal calls running *)
(* at the same time on one id at most one succeeds).                       *)
(***************************************************************************)
C15_NoWriteOnDeleted ==
    [][/\ \A i \in 1 .. Len(meals) :
             meals[i].deleted
             => /\ meals'[i].battles = meals[i].battles
                /\ meals'[i].wins = meals[i].wins
       /\ \A p \in Procs :
             (/\ pending[p].op = "delete_meal"
              /\ pending'[p] = NoCall
              /\ result' = ReturnNone)
             => \A r \in SelectById(meals, pending[p].id) : ~r.deleted]_vars

(***************************************************************************)
(* C16.  After every call of every operation each record of the table has  *)
(* 0 <= wins <= battles, and the record a successful create_meal has just  *)
(* added has battles = 0, wins = 0 and deleted = FALSE.                    *)
(***************************************************************************)
C16_WinsWithinBattles ==
    [][/\ \A i \in 1 .. Len(meals') :
             0 <= meals'[i].wins /\ meals'[i].wins <= meals'[i].battles
       /\ (call'.op = "create_meal" /\ result'.exc = "none")
          => /\ Len(meals') = Len(meals) + 1
             /\ meals'[Len(meals')].meal = call'.meal
             /\ meals'[Len(meals')].battles = 0
             /\ meals'[Len(meals')].wins = 0
             /\ meals'[Len(meals')].deleted = FALSE]_vars

\* A record has just been created next to one that has won some of its
\* battles and lost others.
C16_Witness ==
    /\ call.op = "create_meal"
    /\ result.exc = "none"
    /\ Len(meals) = 2
    /\ meals[2].meal = call.meal
    /\ meals[2].battles = 0 /\ meals[2].wins = 0 /\ ~meals[2].deleted
    /\ 0 < meals[1].wins /\ meals[1].wins < meals[1].battles

(***************************************************************************)
(* C17.  A record whose deleted flag is set keeps it set through every     *)
(* call other than a successful clear_meals; get_meal_by_id,               *)
(* get_meal_by_name and update_meal_stats on such a record fail, and no    *)
(* list returned by get_leaderboard has an entry for it.                   *)
(***************************************************************************)
C17_DeletionOneWay ==
    [][\A i \in 1 .. Len(meals) :
          meals[i].deleted
          => /\ \/ call'.op = "clear_meals" /\ result'.exc = "none"
                \/ /\ i <= Len(meals')
                   /\ meals'[i].id = meals[i].id
                   /\ meals'[i].deleted
             /\ (call'.op \in {"get_meal_by_id", "update_meal_stats"}
                 /\ call'.id = meals[i].id)
                => result'.exc # "none"
             /\ (call'.op = "get_meal_by_name" /\ call'.meal = meals[i].meal)
                => result'.exc # "none"
             /\ (call'.op = "get_leaderboard" /\ result'.ret = "list")
                => meals[i].id \notin BoardIds(result'.board)]_vars

\* A deleted record with battles is missing from a leaderboard that lists
\* another record.
C17_Witness ==
    /\ call.op = "get_leaderboard"
    /\ result.ret = "list"
    /\ Len(result.board) > 0
    /\ \E i \in 1 .. Len(meals) :
          /\ meals[i].deleted
          /\ meals[i].battles > 0
          /\ meals[i].id \notin BoardIds(result.board)

\* The columns of a record that are set when it is created.
Created(r) ==
    [id |-> r.id, meal |-> r.meal, cuisine |-> r.cuisine, price |-> r.price,
     difficulty |-> r.difficulty]

(***************************************************************************)
(* C18.  A successful delete_meal changes the deleted flag of the record   *)
(* meal_id and nothing else; a successful update_meal_stats changes        *)
(* battles and wins of the record meal_id and nothing else; create_meal    *)
(* adds one record at most and changes no existing one; get_meal_by_id,    *)
(* get_meal_by_name and get_leaderboard change nothing; the id, meal,      *)
(* cuisine, price and difficulty of a record never change and no record is *)
(* removed, except by clear_meals.                                         *)
(***************************************************************************)
C18_Frame ==
    [][/\ (call'.op = "delete_meal" /\ result'.exc = "none")
          => /\ Len(meals') = Len(meals)
             /\ \A i \in 1 .. Len(meals) :
                   meals'[i] = IF meals[i].id = call'.id
                               THEN [meals[i] EXCEPT !.deleted = TRUE]
                               ELSE meals[i]
       /\ (call'.op = "update_meal_stats" /\ result'.exc = "none")
          => /\ Len(meals') = Len(meals)
             /\ \A i \in 1 .. Len(meals) :
                   IF meals[i].id = call'.id
                   THEN meals'[i] = [meals[i] EXCEPT !.battles = meals'[i].battles,
                                                     !.wins = meals'[i].wins]
                   ELSE meals'[i] = meals[i]
       /\ call'.op = "create_meal"
          => /\ Len(meals') = (IF result'.exc = "none" THEN Len(meals) + 1
                               ELSE Len(meals))
             /\ \A i \in 1 .. Len(meals) : meals'[i] = meals[i]
       /\ call'.op \in {"get_meal_by_id", "get_meal_by_name", "get_leaderboard"}
          => meals' = meals
       /\ call'.op # "clear_meals"
          => /\ Len(meals') >= Len(meals)
             /\ \A i \in 1 .. Len(meals) : Created(meals'[i]) = Created(meals[i])]_vars

\* delete_meal has just flagged one of two records and left the other,
\* which has battles, as it was.
C18_Witness ==
    /\ call.op = "delete_meal"
    /\ result.exc = "none"
    /\ Len(meals) = 2
    /\ \E i, j \in 1 .. 2 :
          /\ meals[i].id = call.id /\ meals[i].deleted
          /\ meals[j].id # call.id /\ ~meals[j].deleted /\ meals[j].battles > 0
====
